---- MODULE Spec2Model ----
(***************************************************************************)
(* The JOE03 model loader of VDrift (ModelJoe03::Load, LoadFromHandle,     *)
(* ReadData, NeedsNormalSwap, BinaryRead) as a state machine.              *)
(*                                                                         *)
(* The file is a sequence of records ("chunks"), one per BinaryRead call   *)
(* of a reader that follows the format: the header, then for every frame   *)
(* the face array, the three counts and the three attribute arrays.  A     *)
(* truncated file is a prefix of that sequence.  Values are the decoded    *)
(* (host order) values; byte order is not modelled.  Coordinates are small *)
(* integers, so that the float tests of NeedsNormalSwap are exact.         *)
(*                                                                         *)
(* Two things depend on the build and are choices of the model:            *)
(*   ndebug  - assert() is compiled out (NDEBUG) or aborts the process;    *)
(*   an out-of-bounds vector access is undefined: the process crashes      *)
(*   (a fault, or a checked standard library) or goes on with garbage.     *)
(***************************************************************************)
EXTENDS Integers, Sequences, FiniteSets, TLC

\* ------------------------------------------------------------ constants
JOE_MAX_FACES == 32000
JOE_VERSION == 3
MODEL_SCALE == 1

\* ------------------------------------------------------------ bounds
MaxFrames == 2
MaxFaces == 1
MaxVoteFaces == 4

\* ------------------------------------------------------------ helpers
Min(a, b) == IF a < b THEN a ELSE b

Max(a, b) == IF a < b THEN b ELSE a

\* C integer division (truncates toward zero)
CDiv(a, b) == IF a >= 0 THEN a \div b ELSE -((-a) \div b)

VSub(a, b) == <<a[1] - b[1], a[2] - b[2], a[3] - b[3]>>

VAdd(a, b) == <<a[1] + b[1], a[2] + b[2], a[3] + b[3]>>

Cross(a, b) == <<a[2] * b[3] - a[3] * b[2], a[3] * b[1] - a[1] * b[3], a[1] * b[2] - a[2] * b[1]>>

Dot(a, b) == a[1] * b[1] + a[2] * b[2] + a[3] * b[3]

MagSq(a) == Dot(a, a)

RECURSIVE Concat(_)
Concat(ss) == IF ss = <<>> THEN <<>> ELSE Head(ss) \o Concat(Tail(ss))

\* a vector of n value-initialised elements (std::vector::resize)
Fill(n, x) == [k \in 1..n |-> x]

\* ------------------------------------------------------------ records
JoeHeader(ver, nfaces, nframes) == [version |-> ver, num_faces |-> nfaces, num_frames |-> nframes]

JoeFace(vi, ni, ti) == [vertexIndex |-> vi, normalIndex |-> ni, textureIndex |-> ti]

ZeroFace == JoeFace(<<0, 0, 0>>, <<0, 0, 0>>, <<0, 0, 0>>)

ZeroVertex == <<0, 0, 0>>

ZeroTexCoord == <<0, 0>>

JoeFrame == [num_verts |-> 0, num_texcoords |-> 0, num_normals |-> 0,
             faces |-> <<>>, verts |-> <<>>, normals |-> <<>>, texcoords |-> <<>>]

VertEntry == [original_index |-> -1, norm_index |-> -1, tex_index |-> -1]

\* the mesh after Clear(): no call received, nothing held
EmptyMesh == [calls |-> <<>>, faces |-> <<>>, vertices |-> <<>>, normals |-> <<>>, texcoordsets |-> 0, texcoords |-> <<>>]

\* ------------------------------------------------------------ pure code
\* a header test that rejects the limit itself; the code accepts it
HeaderCheck_RejectsLimit(info) ==
    IF info.version # JOE_VERSION THEN "version"
    ELSE IF info.num_faces >= JOE_MAX_FACES THEN "faces"
    ELSE "ok"

\* LoadFromHandle: the two header tests, in the order of the code
HeaderCheck(info) ==
    IF info.version # JOE_VERSION THEN "version"
    ELSE IF info.num_faces > JOE_MAX_FACES THEN "faces"
    ELSE "ok"

\* NeedsNormalSwap, the body of the face loop: does face `face` of frame `fr`
\* count as a flip vote.  Magnitude() > 0.0001 is MagSq >= 1 on integer
\* vectors; -0.5 < n.t/(|n||t|) < 0.5 is 4 (n.t)^2 < |n|^2 |t|^2.
FlipVote(fr, face) ==
    LET tri == [v \in 1..3 |-> fr.verts[face.vertexIndex[v] + 1]]
        norms == [v \in 1..3 |-> fr.normals[face.normalIndex[v] + 1]]
        norm == VAdd(VAdd(norms[1], norms[2]), norms[3])
        tnorm == Cross(VSub(tri[3], tri[1]), VSub(tri[2], tri[1]))
    IN  /\ MagSq(tnorm) > 0
        /\ MagSq(norm) > 0
        /\ 4 * Dot(norm, tnorm) * Dot(norm, tnorm) < MagSq(norm) * MagSq(tnorm)

\* NeedsNormalSwap: normal_flip_count of frame f (1-based)
normal_flip_count(Obj, f) ==
    Cardinality({i \in 1..Obj.info.num_faces : FlipVote(Obj.frames[f], Obj.frames[f].faces[i])})

\* a threshold that is met at num_faces/4 already; the code needs more
FlipThreshold_Inclusive(count, num_faces) == count >= CDiv(num_faces, 4)

FlipThreshold(count, num_faces) == count > CDiv(num_faces, 4)

NeedsNormalSwap(Obj) ==
    \E f \in 1..Obj.info.num_frames : FlipThreshold(normal_flip_count(Obj, f), Obj.info.num_faces)

\* ReadData: std::swap of y and z, then negation of the new y
SwapNormal(n) ==
    LET s == <<n[1], n[3], n[2]>>
    IN  <<s[1], -s[2], s[3]>>

SwapAllNormals(frames) ==
    [f \in 1..Len(frames) |->
        [frames[f] EXCEPT !.normals = [v \in 1..Len(frames[f].normals) |-> SwapNormal(frames[f].normals[v])]]]

\* ReadData: "go do scaling"
ScaleVertex(p) == [d \in 1..3 |-> p[d] * MODEL_SCALE]

ScaleAllVerts(frames) ==
    [f \in 1..Len(frames) |->
        [frames[f] EXCEPT !.verts = [v \in 1..Len(frames[f].verts) |-> ScaleVertex(frames[f].verts[v])]]]

\* the asserts of NeedsNormalSwap: some corner fails one of them
SwapAssertFails(Obj) ==
    \E f \in 1..Obj.info.num_frames : \E i \in 1..Obj.info.num_faces : \E v \in 1..3 :
        LET face == Obj.frames[f].faces[i]
        IN  \/ ~(face.vertexIndex[v] < Obj.frames[f].num_verts)
            \/ ~(face.normalIndex[v] < Obj.frames[f].num_normals)

\* NeedsNormalSwap reads verts[] or normals[] outside the array
SwapOutOfBounds(Obj) ==
    \E f \in 1..Obj.info.num_frames : \E i \in 1..Obj.info.num_faces : \E v \in 1..3 :
        LET face == Obj.frames[f].faces[i]
        IN  \/ face.vertexIndex[v] \notin 0..(Obj.frames[f].num_verts - 1)
            \/ face.normalIndex[v] \notin 0..(Obj.frames[f].num_normals - 1)

\* welders that differ from the code's in one branch each:
\* the slot is reused when the normal index alone agrees
WeldCorner_NormalOnly(vm, vi, ni, ti) ==
    LET ve == vm[vi + 1]
        entry == [original_index |-> vi, norm_index |-> ni, tex_index |-> ti]
    IN  IF ve.original_index = -1
        THEN [kind |-> "first", vm |-> [vm EXCEPT ![vi + 1] = entry], out |-> vi]
        ELSE IF ve.norm_index = ni
        THEN [kind |-> "matched", vm |-> vm, out |-> vi]
        ELSE [kind |-> "new", vm |-> Append(vm, entry), out |-> (Len(vm) + 1) - 1]

\* a populated slot is never reused
WeldCorner_NeverReuses(vm, vi, ni, ti) ==
    LET ve == vm[vi + 1]
        entry == [original_index |-> vi, norm_index |-> ni, tex_index |-> ti]
    IN  IF ve.original_index = -1
        THEN [kind |-> "first", vm |-> [vm EXCEPT ![vi + 1] = entry], out |-> vi]
        ELSE [kind |-> "new", vm |-> Append(vm, entry), out |-> (Len(vm) + 1) - 1]

\* a mismatching corner keeps pointing at its vertex's own slot
WeldCorner_KeepsOwnSlot(vm, vi, ni, ti) ==
    LET ve == vm[vi + 1]
        entry == [original_index |-> vi, norm_index |-> ni, tex_index |-> ti]
    IN  IF ve.original_index = -1
        THEN [kind |-> "first", vm |-> [vm EXCEPT ![vi + 1] = entry], out |-> vi]
        ELSE IF ve.norm_index = ni /\ ve.tex_index = ti
        THEN [kind |-> "matched", vm |-> vm, out |-> vi]
        ELSE [kind |-> "new", vm |-> Append(vm, entry), out |-> vi]

\* ReadData, "build unique vertices": one corner whose slot is inside the table.
\* kind is the branch taken; out is v_faces[i*3+v].
WeldCorner(vm, vi, ni, ti) ==
    LET ve == vm[vi + 1]
        entry == [original_index |-> vi, norm_index |-> ni, tex_index |-> ti]
    IN  IF ve.original_index = -1
        THEN [kind |-> "first", vm |-> [vm EXCEPT ![vi + 1] = entry], out |-> vi]
        ELSE IF ve.norm_index = ni /\ ve.tex_index = ti
        THEN [kind |-> "matched", vm |-> vm, out |-> vi]
        ELSE [kind |-> "new", vm |-> Append(vm, entry), out |-> (Len(vm) + 1) - 1]

\* ReadData: the size of v_faces
IndexCount(num_faces) == num_faces * 3

\* the assert(tex_index >= 0) of the branch taken
WeldAssertFails(vm, vi, ni, ti) ==
    LET r == WeldCorner(vm, vi, ni, ti)
    IN  IF r.kind = "matched" THEN vm[vi + 1].tex_index < 0 ELSE ti < 0

\* ReadData, "fill up the vertices, normals, and texcoords": slot i (1-based)
\* reads outside verts[], normals[] or texcoords[]
SlotOutOfBounds(e, fr) ==
    /\ e.original_index >= 0
    /\ \/ e.original_index >= Len(fr.verts)
       \/ e.norm_index \notin 0..(Len(fr.normals) - 1)
       \/ (e.tex_index < fr.num_texcoords /\ e.tex_index \notin 0..(Len(fr.texcoords) - 1))

SlotVertex(e, fr, g) ==
    IF e.original_index < 0 THEN ZeroVertex
    ELSE IF e.original_index >= Len(fr.verts) THEN <<g, g, g>>
    ELSE fr.verts[e.original_index + 1]

SlotNormal(e, fr, g) ==
    IF e.original_index < 0 THEN ZeroVertex
    ELSE IF e.norm_index \notin 0..(Len(fr.normals) - 1) THEN <<g, g, g>>
    ELSE fr.normals[e.norm_index + 1]

\* a gather whose default starts one index early; the code's starts at the count
SlotTexCoord_DefaultsLast(e, fr, g) ==
    IF e.original_index < 0 THEN ZeroTexCoord
    ELSE IF e.tex_index < fr.num_texcoords - 1
         THEN IF e.tex_index \notin 0..(Len(fr.texcoords) - 1) THEN <<g, g>>
              ELSE fr.texcoords[e.tex_index + 1]
         ELSE <<0, 0>>

SlotTexCoord(e, fr, g) ==
    IF e.original_index < 0 THEN ZeroTexCoord
    ELSE IF e.tex_index < fr.num_texcoords
         THEN IF e.tex_index \notin 0..(Len(fr.texcoords) - 1) THEN <<g, g>>
              ELSE fr.texcoords[e.tex_index + 1]
         ELSE <<0, 0>>

\* the flat arrays: element i*w+d of the code is element i*w+d+1 here
Flat(rows, w) ==
    [j \in 1..(Len(rows) * w) |-> rows[((j - 1) \div w) + 1][((j - 1) % w) + 1]]

\* ------------------------------------------------------------ input files
\* the triangle (0,0,0) (1,0,0) (0,1,0) and two spare points
Points == <<<<0, 0, 0>>, <<1, 0, 0>>, <<0, 1, 0>>, <<0, 0, 1>>, <<1, 1, 0>>>>

NormalOk == <<1, 0, 3>>      \* along the face normal of the triangle: no flip vote

NormalFlipped == <<1, 2, 0>> \* at right angles to it: a flip vote

TexCoords == <<<<1, 2>>, <<3, 4>>>>

Frame(faces, nv, nt, nn, normals) ==
    [num_verts |-> nv, num_texcoords |-> nt, num_normals |-> nn, faces |-> faces,
     verts |-> SubSeq(Points, 1, Max(nv, 0)),
     normals |-> SubSeq(normals, 1, Max(nn, 0)),
     texcoords |-> SubSeq(TexCoords, 1, Max(nt, 0))]

\* the records of a frame in file order, one per BinaryRead of ReadData
FrameChunks(fr) ==
    <<fr.faces, <<fr.num_verts>>, <<fr.num_texcoords>>, <<fr.num_normals>>, fr.verts, fr.normals, fr.texcoords>>

FileOf(h, frs) == <<<<h>>>> \o Concat([k \in 1..Len(frs) |-> FrameChunks(frs[k])])

Prefixes(f) == {SubSeq(f, 1, k) : k \in 0..Len(f)}

PlainFace == JoeFace(<<0, 1, 2>>, <<0, 0, 0>>, <<0, 0, 0>>)

PlainFrame(n) == Frame(Fill(n, PlainFace), 3, 1, 1, <<NormalOk>>)

\* headers alone: every version and count around the limits.  A header that
\* passes validation with a frame to read is followed by its frames below;
\* the payload of a JOE_MAX_FACES file is outside the bounds, so that header
\* comes with a frame count the decoder rejects before reading.
HeaderFiles ==
    {<<<<JoeHeader(v, n, m)>>>> :
        v \in {JOE_VERSION - 1, JOE_VERSION, JOE_VERSION + 1},
        n \in {-1, 0, 1, JOE_MAX_FACES, JOE_MAX_FACES + 1},
        m \in -1..MaxFrames}

HeaderInBounds(f) ==
    LET h == f[1][1]
    IN  \/ h.version # JOE_VERSION
        \/ h.num_faces > JOE_MAX_FACES
        \/ h.num_frames < 0
        \/ h.num_frames = 0 /\ h.num_faces < 2
        \/ h.num_frames > 0 /\ h.num_faces < 0

\* well-formed files of plain frames, cut after every record
TruncatedFiles ==
    UNION {Prefixes(FileOf(JoeHeader(JOE_VERSION, n, m), Fill(m, PlainFrame(n)))) :
              n \in 0..1, m \in 1..MaxFrames}

\* complete one-face files in which a frame has one count or one index wrong
OddFrames ==
    {PlainFrame(1)}
    \cup {Frame(<<PlainFace>>, nv, 1, 1, <<NormalOk>>) : nv \in {-1, 0}}
    \cup {Frame(<<PlainFace>>, 3, nt, 1, <<NormalOk>>) : nt \in {-1, 0}}
    \cup {Frame(<<PlainFace>>, 3, 1, nn, <<NormalOk>>) : nn \in {-1, 0}}
    \cup {Frame(<<JoeFace(vi, <<0, 0, 0>>, <<0, 0, 0>>)>>, 3, 1, 1, <<NormalOk>>) : vi \in {<<-1, 1, 2>>, <<0, 1, 3>>}}
    \cup {Frame(<<JoeFace(<<0, 1, 2>>, ni, <<0, 0, 0>>)>>, 3, 1, 1, <<NormalOk>>) : ni \in {<<-1, 0, 0>>, <<0, 0, 1>>}}
    \cup {Frame(<<JoeFace(<<0, 1, 2>>, <<0, 0, 0>>, ti)>>, 3, 1, 1, <<NormalOk>>) : ti \in {<<-1, 0, 0>>, <<0, 0, 1>>}}

OddFiles ==
    UNION {{FileOf(JoeHeader(JOE_VERSION, 1, m), frs) : frs \in [1..m -> OddFrames]} : m \in 1..MaxFrames}

\* files for the flip vote: face i uses the triangle and normal i
VoteNormals(n) ==
    {[i \in 1..n |-> IF i <= k THEN NormalFlipped ELSE NormalOk] : k \in 0..n}
    \cup {[i \in 1..n |-> IF i = n THEN NormalFlipped ELSE NormalOk]}
    \cup {[i \in 1..n |-> IF i = 1 THEN <<0, 0, 0>> ELSE NormalFlipped]}

VoteFrame(n, normals) ==
    Frame([i \in 1..n |-> JoeFace(<<0, 1, 2>>, <<i - 1, i - 1, i - 1>>, <<0, 0, 0>>)], 3, 1, n, normals)

VoteFiles ==
    UNION {{FileOf(JoeHeader(JOE_VERSION, n, m), frs) :
               frs \in [1..m -> {VoteFrame(n, a) : a \in VoteNormals(n)}]} :
              n \in 2..MaxVoteFaces, m \in 1..MaxFrames}

\* files for the welder: one frame of two vertices, two normals and one
\* texcoord; every face over these corners (vertex 2 is outside the frame,
\* texcoord 1 is outside the texcoord array)
WeldCorners == {<<0, 0, 0>>, <<0, 1, 0>>, <<0, 0, 1>>, <<2, 0, 0>>}

CornerFace(c) ==
    JoeFace(<<c[1][1], c[2][1], c[3][1]>>, <<c[1][2], c[2][2], c[3][2]>>, <<c[1][3], c[2][3], c[3][3]>>)

WeldFiles ==
    UNION {{FileOf(JoeHeader(JOE_VERSION, n, 1),
                   <<Frame([i \in 1..n |-> CornerFace(fs[i])], 2, 1, 2, <<NormalOk, NormalFlipped>>)>>) :
               fs \in [1..n -> [1..3 -> WeldCorners]]} :
              n \in 1..MaxFaces}

\* two faces that share vertex 0, with the same or a different normal there
SharedFiles ==
    {FileOf(JoeHeader(JOE_VERSION, 2, 1),
            <<Frame(<<JoeFace(<<0, 1, 2>>, <<a, 0, 0>>, <<0, 0, 0>>), JoeFace(vi, <<b, c, 0>>, <<0, 0, 0>>)>>,
                    5, 1, 2, <<NormalOk, NormalFlipped>>)>>) :
        a \in 0..1, b \in 0..1, c \in 0..1, vi \in {<<0, 3, 4>>, <<0, 0, 4>>, <<3, 0, 0>>}}

Inputs ==
    {[file |-> f, ndebug |-> d, pack |-> p, genlist |-> g] :
        f \in {<<>>} \cup {h \in HeaderFiles : HeaderInBounds(h)} \cup TruncatedFiles,
        d \in BOOLEAN, p \in BOOLEAN, g \in BOOLEAN}
    \cup {[file |-> f, ndebug |-> d, pack |-> FALSE, genlist |-> FALSE] :
        f \in OddFiles \cup VoteFiles \cup WeldFiles \cup SharedFiles, d \in BOOLEAN}

\* what an uninitialised JoeHeader may hold after a short header read
GarbageHeaders == {JoeHeader(JOE_VERSION, 1, 1), JoeHeader(0, 0, 0)}

\* what an out-of-bounds float read may yield
GarbageFloats == {0, 7}

\* ------------------------------------------------------------ state
VARIABLES
    file,               \* the records of the file (the input)
    ndebug,             \* the build: assert() compiled out
    usePack,            \* Load's pack argument is not NULL
    genlist,            \* Load's genlist argument
    pc,                 \* where Load is
    fpos,               \* the file position, in records
    handle,             \* "none", "open", "closed": m_FilePointer or the pack entry
    closes,             \* calls of fclose / pack->fclose
    reads,              \* calls of BinaryRead so far
    shortAt,            \* the number of the first BinaryRead that came back short (0: none)
    Object,             \* JoeObject: info and frames
    i_frame,            \* ReadData: the frame loop's i
    need_normal_flip,   \* the result of NeedsNormalSwap
    vert_master,        \* ReadData: the welder table
    v_faces,            \* ReadData: the output index array
    corner,             \* ReadData: i*3+v of the welder loop
    v_vertices,
    v_normals,
    v_texcoords,
    m_mesh,             \* what the mesh has been given
    metrics,            \* GenerateMeshMetrics was called
    gpu,                \* "none", "list" (GenerateListID), "vao" (GenerateVertexArrayObject)
    err_output,         \* the messages written
    val                 \* Load's val, the result of LoadFromHandle ("none" before); returned at pc = "returned"

vars == <<file, ndebug, usePack, genlist, pc, fpos, handle, closes, reads, shortAt, Object, i_frame,
          need_normal_flip, vert_master, v_faces, corner, v_vertices, v_normals, v_texcoords,
          m_mesh, metrics, gpu, err_output, val>>

input == <<file, ndebug, usePack, genlist>>

io == <<fpos, handle, closes, reads, shortAt>>

weld == <<vert_master, v_faces, corner>>

arrays == <<v_vertices, v_normals, v_texcoords>>

result == <<m_mesh, metrics, gpu, err_output, val>>

Init ==
    /\ \E inp \in Inputs :
        /\ file = inp.file
        /\ ndebug = inp.ndebug
        /\ usePack = inp.pack
        /\ genlist = inp.genlist
    /\ pc = "Load"
    /\ fpos = 1
    /\ handle = "none"
    /\ closes = 0
    /\ reads = 0
    /\ shortAt = 0
    /\ Object = [info |-> JoeHeader(0, 0, 0), frames |-> <<>>]
    /\ i_frame = 0
    /\ need_normal_flip = FALSE
    /\ vert_master = <<>>
    /\ v_faces = <<>>
    /\ corner = 0
    /\ v_vertices = <<>>
    /\ v_normals = <<>>
    /\ v_texcoords = <<>>
    /\ m_mesh = EmptyMesh
    /\ metrics = FALSE
    /\ gpu = "none"
    /\ err_output = <<>>
    /\ val = "none"

\* ------------------------------------------------------------ actions
\* the process ends here: "aborted" (a failed assert), "threw" (an exception
\* leaves Load), "crashed" (an out-of-bounds access)
Halt(how) ==
    /\ pc' = how
    /\ UNCHANGED <<input, io, Object, i_frame, need_normal_flip, weld, arrays, result>>

\* Load: Clear(), then fopen / pack->fopen
Open ==
    /\ pc = "Load"
    /\ \/ /\ handle' = "open"
          /\ pc' = "ReadHeader"
          /\ UNCHANGED <<err_output, val>>
       \/ /\ err_output' = Append(err_output, IF usePack THEN "FailedToOpenInPack" ELSE "FailedToOpen")
          /\ val' = FALSE
          /\ pc' = "returned"
          /\ UNCHANGED handle
    /\ m_mesh' = EmptyMesh
    /\ UNCHANGED <<input, fpos, closes, reads, shortAt, Object, i_frame, need_normal_flip, weld, arrays, metrics, gpu>>

\* BinaryRead: the record at the file position, if the file has one
Chunk == IF fpos <= Len(file) THEN file[fpos] ELSE <<>>

\* BinaryRead: bytesread, the number of elements fread / pack->fread returns
BinaryRead(count) == Min(count, Len(Chunk))

\* the buffer after the read: the elements read, then what it held before
Buffer(count, old) == [k \in 1..Len(old) |-> IF k <= BinaryRead(count) THEN Chunk[k] ELSE old[k]]

\* BinaryRead and its assert(bytesread == count); the caller drops the result
ReadInto(count, Obj, next, i) ==
    /\ reads' = reads + 1
    /\ fpos' = IF fpos <= Len(file) THEN fpos + 1 ELSE fpos
    /\ shortAt' = IF shortAt = 0 /\ BinaryRead(count) # count THEN reads + 1 ELSE shortAt
    /\ Object' = Obj
    /\ pc' = IF BinaryRead(count) # count /\ ~ndebug THEN "aborted" ELSE next
    /\ i_frame' = IF BinaryRead(count) # count /\ ~ndebug THEN i_frame ELSE i
    /\ UNCHANGED <<input, handle, closes, need_normal_flip, weld, arrays, result>>

\* LoadFromHandle: BinaryRead(&Object.info, sizeof(JoeHeader), 1, ...)
ReadHeader ==
    /\ pc = "ReadHeader"
    /\ \E g \in (IF BinaryRead(1) = 1 THEN {Chunk[1]} ELSE GarbageHeaders) :
          ReadInto(1, [Object EXCEPT !.info = g], "CheckHeader", i_frame)

\* LoadFromHandle: the version and face count tests
CheckHeader ==
    /\ pc = "CheckHeader"
    /\ \/ /\ HeaderCheck(Object.info) = "version"
          /\ err_output' = Append(err_output, "InvalidVersion")
          /\ val' = FALSE
          /\ pc' = "Close"
       \/ /\ HeaderCheck(Object.info) = "faces"
          /\ err_output' = Append(err_output, "TooManyFaces")
          /\ val' = FALSE
          /\ pc' = "Close"
       \/ /\ HeaderCheck(Object.info) = "ok"
          /\ pc' = "ReadData"
          /\ UNCHANGED <<err_output, val>>
    /\ UNCHANGED <<input, io, Object, i_frame, need_normal_flip, weld, arrays, m_mesh, metrics, gpu>>

\* ReadData: Object.frames.resize(num_frames)
ResizeFrames ==
    /\ pc = "ReadData"
    /\ \/ /\ Object.info.num_frames < 0
          /\ Halt("threw")
       \/ /\ Object.info.num_frames >= 0
          /\ Object' = [Object EXCEPT !.frames = Fill(Object.info.num_frames, JoeFrame)]
          /\ i_frame' = 0
          /\ pc' = IF Object.info.num_frames > 0 THEN "ReadFaces" ELSE "Scale"
          /\ UNCHANGED <<input, io, need_normal_flip, weld, arrays, result>>

\* ReadData, the frame loop: faces.resize(num_faces), then the face array
ReadFaces ==
    /\ pc = "ReadFaces"
    /\ LET n == Object.info.num_faces
       IN  \/ n < 0 /\ Halt("threw")
           \/ n = 0 /\ Halt("crashed")     \* &faces[0] of an empty vector
           \/ /\ n >= 0
              /\ ReadInto(n, [Object EXCEPT !.frames[i_frame + 1].faces = Buffer(n, Fill(n, ZeroFace))],
                          "ReadNumVerts", i_frame)

ReadNumVerts ==
    /\ pc = "ReadNumVerts"
    /\ ReadInto(1, [Object EXCEPT !.frames[i_frame + 1].num_verts = Buffer(1, <<@>>)[1]],
                "ReadNumTexcoords", i_frame)

ReadNumTexcoords ==
    /\ pc = "ReadNumTexcoords"
    /\ ReadInto(1, [Object EXCEPT !.frames[i_frame + 1].num_texcoords = Buffer(1, <<@>>)[1]],
                "ReadNumNormals", i_frame)

ReadNumNormals ==
    /\ pc = "ReadNumNormals"
    /\ ReadInto(1, [Object EXCEPT !.frames[i_frame + 1].num_normals = Buffer(1, <<@>>)[1]],
                "ResizeArrays", i_frame)

\* ReadData: verts.resize, normals.resize, texcoords.resize
ResizeArrays ==
    /\ pc = "ResizeArrays"
    /\ LET fr == Object.frames[i_frame + 1]
       IN  \/ /\ (fr.num_verts < 0 \/ fr.num_normals < 0 \/ fr.num_texcoords < 0)
              /\ Halt("threw")
           \/ /\ fr.num_verts >= 0 /\ fr.num_normals >= 0 /\ fr.num_texcoords >= 0
              /\ Object' = [Object EXCEPT !.frames[i_frame + 1] =
                               [fr EXCEPT !.verts = Fill(fr.num_verts, ZeroVertex),
                                          !.normals = Fill(fr.num_normals, ZeroVertex),
                                          !.texcoords = Fill(fr.num_texcoords, ZeroTexCoord)]]
              /\ pc' = "ReadVerts"
              /\ UNCHANGED <<input, io, i_frame, need_normal_flip, weld, arrays, result>>

ReadVerts ==
    /\ pc = "ReadVerts"
    /\ LET n == Object.frames[i_frame + 1].num_verts
       IN  \/ n = 0 /\ Halt("crashed")     \* &verts[0] of an empty vector
           \/ ReadInto(n, [Object EXCEPT !.frames[i_frame + 1].verts = Buffer(n, @)], "ReadNormals", i_frame)

ReadNormals ==
    /\ pc = "ReadNormals"
    /\ LET n == Object.frames[i_frame + 1].num_normals
       IN  \/ n = 0 /\ Halt("crashed")     \* &normals[0] of an empty vector
           \/ ReadInto(n, [Object EXCEPT !.frames[i_frame + 1].normals = Buffer(n, @)], "ReadTexcoords", i_frame)

\* the last read of the frame, then i++ and the loop test
ReadTexcoords ==
    /\ pc = "ReadTexcoords"
    /\ LET n == Object.frames[i_frame + 1].num_texcoords
       IN  \/ n = 0 /\ Halt("crashed")     \* &texcoords[0] of an empty vector
           \/ ReadInto(n, [Object EXCEPT !.frames[i_frame + 1].texcoords = Buffer(n, @)],
                       IF i_frame + 1 < Object.info.num_frames THEN "ReadFaces" ELSE "Scale", i_frame + 1)

\* ReadData: "go do scaling"
ScaleVerts ==
    /\ pc = "Scale"
    /\ Object' = [Object EXCEPT !.frames = ScaleAllVerts(@)]
    /\ pc' = "NormalSwap"
    /\ UNCHANGED <<input, io, i_frame, need_normal_flip, weld, arrays, result>>

\* NeedsNormalSwap reads below the arrays: the asserts test the upper end only
SwapNegative(Obj) ==
    \E f \in 1..Obj.info.num_frames : \E i \in 1..Obj.info.num_faces : \E v \in 1..3 :
        LET face == Obj.frames[f].faces[i]
        IN  face.vertexIndex[v] < 0 \/ face.normalIndex[v] < 0

\* ReadData: if (NeedsNormalSwap(Object)) swap the normals of every frame
CorrectNormals ==
    /\ pc = "NormalSwap"
    /\ LET abort == ~ndebug /\ SwapAssertFails(Object)
           wild == SwapNegative(Object) \/ (ndebug /\ SwapOutOfBounds(Object))
       IN  \/ abort /\ Halt("aborted")
           \/ wild /\ Halt("crashed")
           \/ /\ ~abort
              /\ \E flip \in (IF wild THEN BOOLEAN ELSE {NeedsNormalSwap(Object)}) :
                    /\ need_normal_flip' = flip
                    /\ Object' = IF flip THEN [Object EXCEPT !.frames = SwapAllNormals(@)] ELSE Object
              /\ pc' = "WeldInit"
              /\ UNCHANGED <<input, io, i_frame, weld, arrays, result>>

\* what Object.frames[0] of an empty vector may hold
GarbageFrame == [JoeFrame EXCEPT !.faces = Fill(Max(Object.info.num_faces, 0), ZeroFace)]

\* ReadData: vert_master(num_verts) of frame 0 and v_faces(num_faces*3)
WeldInit ==
    /\ pc = "WeldInit"
    /\ \/ /\ Len(Object.frames) = 0          \* Object.frames[0] of an empty vector
          /\ \/ Halt("crashed")
             \/ /\ Object' = [Object EXCEPT !.frames = <<GarbageFrame>>]
                /\ UNCHANGED <<input, io, pc, i_frame, need_normal_flip, weld, arrays, result>>
       \/ /\ Len(Object.frames) > 0
          /\ Object.info.num_faces < 0
          /\ Halt("threw")
       \/ /\ Len(Object.frames) > 0
          /\ Object.info.num_faces >= 0
          /\ vert_master' = Fill(Object.frames[1].num_verts, VertEntry)
          /\ v_faces' = Fill(IndexCount(Object.info.num_faces), 0)
          /\ corner' = 0
          /\ pc' = IF Object.info.num_faces > 0 THEN "Weld" ELSE "Build"
          /\ UNCHANGED <<input, io, Object, i_frame, need_normal_flip, arrays, result>>

\* ReadData, "build unique vertices": one corner of one face of frame 0
Weld ==
    /\ pc = "Weld"
    /\ LET face == Object.frames[1].faces[(corner \div 3) + 1]
           v == (corner % 3) + 1
           vi == face.vertexIndex[v]
           ni == face.normalIndex[v]
           ti == face.textureIndex[v]
           next == IF corner + 1 < Object.info.num_faces * 3 THEN "Weld" ELSE "Build"
       IN  \/ /\ vi \in 0..(Len(vert_master) - 1)
              /\ LET r == WeldCorner(vert_master, vi, ni, ti)
                 IN  /\ vert_master' = r.vm
                     /\ v_faces' = [v_faces EXCEPT ![corner + 1] = r.out]
                     /\ corner' = corner + 1
                     /\ pc' = IF ~ndebug /\ WeldAssertFails(vert_master, vi, ni, ti) THEN "aborted" ELSE next
           \/ /\ vi \notin 0..(Len(vert_master) - 1)   \* vert_master[vi] is outside the table
              /\ \/ /\ pc' = "crashed"
                    /\ UNCHANGED weld
                 \/ /\ vert_master' = vert_master       \* garbage read as empty or as a match
                    /\ v_faces' = [v_faces EXCEPT ![corner + 1] = vi]
                    /\ corner' = corner + 1
                    /\ pc' = IF ~ndebug /\ ti < 0 THEN "aborted" ELSE next
                 \/ /\ vert_master' = Append(vert_master, [original_index |-> vi, norm_index |-> ni, tex_index |-> ti])
                    /\ v_faces' = [v_faces EXCEPT ![corner + 1] = Len(vert_master')  - 1]
                    /\ corner' = corner + 1
                    /\ pc' = IF ~ndebug /\ ti < 0 THEN "aborted" ELSE next
    /\ UNCHANGED <<input, io, Object, i_frame, need_normal_flip, arrays, result>>

\* ReadData, "fill up the vertices, normals, and texcoords"
BuildArrays ==
    /\ pc = "Build"
    /\ LET fr == Object.frames[1]
           wild == \E i \in 1..Len(vert_master) : SlotOutOfBounds(vert_master[i], fr)
       IN  \/ wild /\ Halt("crashed")
           \/ /\ \E g \in (IF wild THEN GarbageFloats ELSE {0}) :
                    /\ v_vertices' = Flat([i \in 1..Len(vert_master) |-> SlotVertex(vert_master[i], fr, g)], 3)
                    /\ v_normals' = Flat([i \in 1..Len(vert_master) |-> SlotNormal(vert_master[i], fr, g)], 3)
                    /\ v_texcoords' = Flat([i \in 1..Len(vert_master) |-> SlotTexCoord(vert_master[i], fr, g)], 2)
              /\ pc' = "Assign"
              /\ UNCHANGED <<input, io, Object, i_frame, need_normal_flip, weld, result>>

\* the setters of m_mesh in the order ReadData calls them
Setters == <<"SetFaces", "SetVertices", "SetNormals", "SetTexCoordSets", "SetTexCoords">>

\* m_mesh after the first k setters
MeshAfter(k) ==
    [calls |-> SubSeq(Setters, 1, k),
     faces |-> IF k >= 1 THEN v_faces ELSE m_mesh.faces,
     vertices |-> IF k >= 2 THEN v_vertices ELSE m_mesh.vertices,
     normals |-> IF k >= 3 THEN v_normals ELSE m_mesh.normals,
     texcoordsets |-> IF k >= 4 THEN 1 ELSE m_mesh.texcoordsets,
     texcoords |-> IF k >= 5 THEN v_texcoords ELSE m_mesh.texcoords]

\* ReadData, "assign to our mesh": &v[0] of an empty vector is out of bounds
AssignMesh ==
    /\ pc = "Assign"
    /\ \/ /\ v_faces = <<>>
          /\ m_mesh' = MeshAfter(0)
          /\ pc' = "crashed"
       \/ /\ v_faces # <<>> /\ v_vertices = <<>>
          /\ m_mesh' = MeshAfter(1)
          /\ pc' = "crashed"
       \/ /\ m_mesh' = MeshAfter(5)
          /\ pc' = "Metrics"
    /\ UNCHANGED <<input, io, Object, i_frame, need_normal_flip, weld, arrays, metrics, gpu, err_output, val>>

\* LoadFromHandle: GenerateMeshMetrics(), return true
Metrics ==
    /\ pc = "Metrics"
    /\ metrics' = TRUE
    /\ val' = TRUE
    /\ pc' = "Close"
    /\ UNCHANGED <<input, io, Object, i_frame, need_normal_flip, weld, arrays, m_mesh, gpu, err_output>>

\* Load: fclose / pack->fclose, the GPU precompute or the "in <file>" message, return val
CloseAndReturn ==
    /\ pc = "Close"
    /\ handle' = "closed"
    /\ closes' = closes + 1
    /\ \/ /\ val = TRUE
          /\ gpu' = IF genlist THEN "list" ELSE "vao"
          /\ UNCHANGED err_output
       \/ /\ val = FALSE
          /\ err_output' = Append(err_output, "InFile")
          /\ UNCHANGED gpu
    /\ pc' = "returned"
    /\ UNCHANGED <<input, fpos, reads, shortAt, Object, i_frame, need_normal_flip, weld, arrays, m_mesh, metrics, val>>

Next ==
    \/ Open
    \/ ReadHeader
    \/ CheckHeader
    \/ ResizeFrames
    \/ ReadFaces
    \/ ReadNumVerts
    \/ ReadNumTexcoords
    \/ ReadNumNormals
    \/ ResizeArrays
    \/ ReadVerts
    \/ ReadNormals
    \/ ReadTexcoords
    \/ ScaleVerts
    \/ CorrectNormals
    \/ WeldInit
    \/ Weld
    \/ BuildArrays
    \/ AssignMesh
    \/ Metrics
    \/ CloseAndReturn

Spec == Init /\ [][Next]_vars

\* ------------------------------------------------------------ claims
Terminal == pc \in {"returned", "aborted", "threw", "crashed"}

\* the header tests of the format, stated on the header Load decoded
HeaderValid == Object.info.version = 3 /\ Object.info.num_faces <= 32000

\* the header was read and tested
HeaderChecked == pc \notin {"Load", "ReadHeader", "CheckHeader"} /\ handle # "none" /\ ~(pc = "aborted" /\ reads = 1)

\* the mesh has been handed all five arrays
MeshAssigned == Len(m_mesh.calls) = 5

\* the file, read as the format defines it
FileHeader == file[1][1]

FileFrame(k) ==
    [faces |-> file[7 * k - 5], num_verts |-> file[7 * k - 4][1], num_texcoords |-> file[7 * k - 3][1],
     num_normals |-> file[7 * k - 2][1]]

\* a complete file whose counts are positive and whose indices are inside
\* the arrays of their frame
WellFormedFile ==
    /\ Len(file) >= 1
    /\ FileHeader.version = 3
    /\ FileHeader.num_faces \in 1..32000
    /\ FileHeader.num_frames >= 1
    /\ Len(file) = 1 + 7 * FileHeader.num_frames
    /\ \A k \in 1..FileHeader.num_frames :
          LET fr == FileFrame(k)
          IN  /\ fr.num_verts >= 1 /\ fr.num_normals >= 1 /\ fr.num_texcoords >= 1
              /\ \A i \in 1..Len(fr.faces) : \A v \in 1..3 :
                    /\ fr.faces[i].vertexIndex[v] \in 0..(fr.num_verts - 1)
                    /\ fr.faces[i].normalIndex[v] \in 0..(fr.num_normals - 1)
                    /\ (k = 1 => fr.faces[i].textureIndex[v] >= 0)

\* C1 as stated: every file that opens and reads completely with version == 3
\* and faceCount <= 32000 (zero and negative counts included) loads with
\* success, and SetFaces receives 3 * faceCount indices.
C1_AnyValidHeaderLoads ==
    (Terminal /\ handle # "none" /\ reads >= 1 /\ shortAt = 0 /\ HeaderValid)
        => (pc = "returned" /\ val = TRUE /\ MeshAssigned /\ Len(m_mesh.faces) = 3 * Object.info.num_faces)

\* C1 on well-formed files: every complete file with version == 3, 1 <= faceCount <= 32000,
\* frameCount >= 1, positive vertex, normal and texcoord counts in every frame,
\* vertex and normal indices inside their frame's arrays and frame-0 texcoord
\* indices >= 0 loads with success once opened, and SetFaces receives exactly
\* 3 * faceCount indices.
C1_WellFormedFileLoads ==
    (Terminal /\ handle # "none" /\ WellFormedFile)
        => (pc = "returned" /\ val = TRUE /\ MeshAssigned /\ Len(m_mesh.faces) = 3 * FileHeader.num_faces)

C1_Witness ==
    /\ pc = "returned" /\ val = TRUE /\ WellFormedFile
    /\ FileHeader.num_frames = 2 /\ Len(m_mesh.faces) = 3 * FileHeader.num_faces

\* the corners of frame 0 in welding order, as VertEntry triples
Corners == 0..(3 * Object.info.num_faces - 1)

CornerTriple(k) ==
    LET face == Object.frames[1].faces[(k \div 3) + 1]
        v == (k % 3) + 1
    IN  [original_index |-> face.vertexIndex[v], norm_index |-> face.normalIndex[v], tex_index |-> face.textureIndex[v]]

CornerPair(k) == <<CornerTriple(k).norm_index, CornerTriple(k).tex_index>>

Frame0InRange ==
    /\ Len(Object.frames) >= 1
    /\ \A k \in Corners : CornerTriple(k).original_index \in 0..(Object.frames[1].num_verts - 1)

ArraysMatchTable ==
    /\ Len(m_mesh.vertices) = 3 * Len(vert_master)
    /\ Len(m_mesh.normals) = 3 * Len(vert_master)
    /\ Len(m_mesh.texcoords) = 2 * Len(vert_master)

IndicesInTable == \A k \in 1..Len(m_mesh.faces) : m_mesh.faces[k] \in 0..(Len(vert_master) - 1)

\* C2 as stated: in every mesh ReadData hands over after reading frame 0,
\* every index lies in [0, weldedVertexCount), whatever face index values
\* frame 0 holds.
C2_IndicesInRangeAlways ==
    (MeshAssigned /\ Object.info.num_frames >= 1 /\ shortAt = 0) => (IndicesInTable /\ ArraysMatchTable)

\* C2 with the vertex indices in range: in every mesh ReadData hands over, every index lies in
\* [0, weldedVertexCount), provided every vertexIndex of frame 0's faces lies
\* in [0, vertexCount of frame 0); the three arrays hold 3, 3 and 2 values
\* per table slot in any case.
C2_IndicesInRange == MeshAssigned => (ArraysMatchTable /\ (Frame0InRange => IndicesInTable))

C2_Witness ==
    /\ MeshAssigned /\ Frame0InRange
    /\ \E k \in 1..Len(m_mesh.faces) : m_mesh.faces[k] >= Object.frames[1].num_verts

\* the welder loop is over
Welded == pc = "Build"

Populated == {j \in 1..Len(vert_master) : vert_master[j].original_index # -1}

Uses(p) == {k \in Corners : CornerTriple(k).original_index = p}

FirstUse(p) == CHOOSE k \in Uses(p) : \A k2 \in Uses(p) : k <= k2

\* the corners whose pair differs from the pair of the first corner at their vertex
Mismatches == {k \in Corners : CornerPair(k) # CornerPair(FirstUse(CornerTriple(k).original_index))}

C4_WeldIdempotent ==
    (Welded /\ Frame0InRange /\ \A k, k2 \in Corners :
            CornerTriple(k).original_index = CornerTriple(k2).original_index => CornerPair(k) = CornerPair(k2))
        => /\ Len(vert_master) = Object.frames[1].num_verts
           /\ \A k \in Corners : v_faces[k + 1] = CornerTriple(k).original_index

C4_Witness ==
    /\ Welded /\ Frame0InRange
    /\ \A k, k2 \in Corners :
          CornerTriple(k).original_index = CornerTriple(k2).original_index => CornerPair(k) = CornerPair(k2)
    /\ \E k, k2 \in Corners : k # k2 /\ CornerTriple(k).original_index = CornerTriple(k2).original_index
    /\ Len(vert_master) = Object.frames[1].num_verts

\* C5: once the header is read, version # 3 fails the load with the version
\* message, otherwise faceCount > 32000 fails it with the face count message,
\* in both cases with no read after the header; version == 3 with
\* faceCount <= 32000 (32000 included) goes on into ReadData.
C5_HeaderGate ==
    HeaderChecked =>
        /\ Object.info.version # 3 =>
              /\ val = FALSE /\ pc \in {"Close", "returned"} /\ reads = 1
              /\ err_output \in {<<"InvalidVersion">>, <<"InvalidVersion", "InFile">>}
        /\ (Object.info.version = 3 /\ Object.info.num_faces > 32000) =>
              /\ val = FALSE /\ pc \in {"Close", "returned"} /\ reads = 1
              /\ err_output \in {<<"TooManyFaces">>, <<"TooManyFaces", "InFile">>}
        /\ (Object.info.version = 3 /\ Object.info.num_faces <= 32000) =>
              /\ err_output = <<>> /\ pc # "CheckHeader"
              /\ (pc \in {"Close", "returned"} => val = TRUE)

C5_Witness ==
    /\ pc = "ReadData" /\ shortAt = 0
    /\ Object.info.version = 3 /\ Object.info.num_faces = 32000

\* C6: once Load has opened its source, the handle is closed exactly once
\* before Load is over, on every exit path.
C6_HandleClosedOnEveryPath ==
    /\ closes <= 1
    /\ (Terminal /\ handle # "none") => (handle = "closed" /\ closes = 1)

\* a load that fails: no open, a short read, a wrong version, too many faces
FailingLoad ==
    \/ handle = "none"
    \/ shortAt # 0
    \/ Object.info.version # 3
    \/ Object.info.num_faces > 32000

\* C7: every failing load (open failure, version mismatch, face count
\* exceeded, short read) ends with Load returning false, no setter of the
\* mesh called and no GPU precompute run.
C7_FailureReturnsFalse ==
    (Terminal /\ FailingLoad) => (pc = "returned" /\ val = FALSE /\ m_mesh.calls = <<>> /\ gpu = "none")

\* C8: after a read that returned fewer elements than requested no further
\* read is issued, and no welding and no mesh handoff follow.
C8_ShortReadStopsLoad ==
    shortAt # 0 =>
        /\ reads = shortAt
        /\ pc \notin {"WeldInit", "Weld", "Build", "Assign", "Metrics"}
        /\ m_mesh.calls = <<>>

\* C9: the object is flagged iff some frame has more flip votes than a quarter
\* of the faces (4 * votes > faceCount); if flagged every normal (x, y, z) of
\* every frame becomes (x, -z, y), once; if not, no normal changes.
C9_GlobalNormalCorrection ==
    [][(pc = "NormalSwap" /\ pc' = "WeldInit" /\ ~SwapOutOfBounds(Object)) =>
          LET flagged == \E f \in 1..Len(Object.frames) : 4 * normal_flip_count(Object, f) > Object.info.num_faces
          IN  /\ need_normal_flip' = flagged
              /\ Object'.info = Object.info
              /\ Len(Object'.frames) = Len(Object.frames)
              /\ \A f \in 1..Len(Object.frames) :
                    /\ Object'.frames[f] = [Object.frames[f] EXCEPT !.normals = Object'.frames[f].normals]
                    /\ Len(Object'.frames[f].normals) = Len(Object.frames[f].normals)
                    /\ \A v \in 1..Len(Object.frames[f].normals) :
                          LET n == Object.frames[f].normals[v]
                          IN  Object'.frames[f].normals[v] = IF flagged THEN <<n[1], -n[3], n[2]>> ELSE n
      ]_vars

\* flagged by the votes of the second frame alone, at exactly half the faces
C9_Witness ==
    /\ pc = "WeldInit" /\ need_normal_flip /\ shortAt = 0
    /\ Object.info.num_frames = 2 /\ Object.info.num_faces = 4
    /\ \A v \in 1..4 : file[7][v] = NormalOk
    /\ Cardinality({v \in 1..4 : file[14][v] = NormalFlipped}) = 2
    /\ Object.frames[1].normals[1] = <<1, -3, 0>>

\* C10: after welding, the slot at the output index of every corner of every
\* face of frame 0 holds that corner's (vertexIndex, normalIndex,
\* textureIndex), the output index of corner v of face i being v_faces[3*i+v]
\* (the corner order of the face is kept).
C10_CornerKeepsTriple ==
    (Welded /\ Frame0InRange) =>
        \A i \in 0..(Object.info.num_faces - 1) : \A v \in 0..2 :
            /\ v_faces[3 * i + v + 1] \in 0..(Len(vert_master) - 1)
            /\ vert_master[v_faces[3 * i + v + 1] + 1] = CornerTriple(3 * i + v)

C10_Witness ==
    /\ Welded /\ Frame0InRange /\ Object.info.num_faces = 2
    /\ Len(vert_master) > Object.frames[1].num_verts
    /\ \E i \in 0..1 : Cardinality({v_faces[3 * i + v + 1] : v \in 0..2}) = 3

\* the values the mesh holds for table slot i (1-based)
MeshVertex(i) == <<m_mesh.vertices[3 * i - 2], m_mesh.vertices[3 * i - 1], m_mesh.vertices[3 * i]>>

MeshNormal(i) == <<m_mesh.normals[3 * i - 2], m_mesh.normals[3 * i - 1], m_mesh.normals[3 * i]>>

MeshTexCoord(i) == <<m_mesh.texcoords[2 * i - 1], m_mesh.texcoords[2 * i]>>

\* slot i holds source indices that name a vertex and a normal of frame 0 and
\* a texcoord index that is not negative
SlotHasSource(i) ==
    LET e == vert_master[i]
        fr == Object.frames[1]
    IN  /\ e.original_index \in 0..(Len(fr.verts) - 1)
        /\ e.norm_index \in 0..(Len(fr.normals) - 1)
        /\ e.tex_index >= 0
        /\ (e.tex_index < fr.num_texcoords => e.tex_index < Len(fr.texcoords))

\* slot i of the mesh holds the position and normal its source indices name,
\* and the texcoord they name if the index is below the texcoord count,
\* (0, 0) otherwise
SlotGathered(i) ==
    LET e == vert_master[i]
        fr == Object.frames[1]
    IN  /\ MeshVertex(i) = fr.verts[e.original_index + 1]
        /\ MeshNormal(i) = fr.normals[e.norm_index + 1]
        /\ MeshTexCoord(i) = IF e.tex_index < fr.num_texcoords THEN fr.texcoords[e.tex_index + 1] ELSE <<0, 0>>

\* the load goes on to success after the handoff
NotFailed == pc \in {"Metrics", "Close", "returned"} /\ (pc \in {"Close", "returned"} => val = TRUE)

\* C11 as stated: in every mesh handed over from a complete file with at least
\* one face whose frame-0 corners carry indices inside their arrays (texcoord index >= 0), every
\* slot of the table has source indices and holds the position and normal
\* gathered from them and the gathered or defaulted texcoord; the arrays hold
\* 3, 3 and 2 values per slot and the load is not failed.
C11_EverySlotGathered ==
    (MeshAssigned /\ shortAt = 0 /\ Object.info.num_frames >= 1 /\ Object.info.num_faces >= 1 /\ Frame0InRange
        /\ \A k \in Corners : CornerTriple(k).norm_index \in 0..(Object.frames[1].num_normals - 1)
                               /\ CornerTriple(k).tex_index >= 0)
        => /\ ArraysMatchTable /\ NotFailed
           /\ \A i \in 1..Len(vert_master) : SlotHasSource(i) /\ SlotGathered(i)

\* C11 amended: in every mesh handed over, the arrays hold 3, 3 and 2 values
\* per table slot and the load is not failed; a slot no corner populated
\* (original_index < 0) holds zeros in all three arrays; a populated slot
\* whose vertex and normal index lie inside frame 0's arrays and whose
\* texcoord index is >= 0 holds the position and the normal they name, and
\* the texcoord its index names if the index is below the texcoord count,
\* (0, 0) otherwise.
C11_PopulatedSlotsGathered ==
    (MeshAssigned /\ Len(Object.frames) >= 1)
        => /\ ArraysMatchTable /\ NotFailed
           /\ \A i \in 1..Len(vert_master) :
                 /\ vert_master[i].original_index < 0 =>
                       (MeshVertex(i) = <<0, 0, 0>> /\ MeshNormal(i) = <<0, 0, 0>> /\ MeshTexCoord(i) = <<0, 0>>)
                 /\ SlotHasSource(i) => SlotGathered(i)

\* a mesh with an unpopulated slot, a slot with a gathered texcoord that is
\* not (0, 0) and a slot with a defaulted one
C11_Witness ==
    /\ MeshAssigned /\ Len(Object.frames) >= 1 /\ shortAt = 0
    /\ \E i \in 1..Len(vert_master) : vert_master[i].original_index < 0
    /\ \E i \in 1..Len(vert_master) :
          /\ SlotHasSource(i) /\ vert_master[i].tex_index < Object.frames[1].num_texcoords
          /\ MeshTexCoord(i) # <<0, 0>>
    /\ \E i \in 1..Len(vert_master) :
          /\ SlotHasSource(i) /\ vert_master[i].tex_index >= Object.frames[1].num_texcoords
          /\ MeshTexCoord(i) = <<0, 0>>

====
